---- MODULE Spec2Model ----
(***************************************************************************)
(* Replay guard (core-bridge utils/vaa/mod.rs: claim_vaa) and native       *)
(* settlement (token-bridge legacy/processor/complete_transfer/native.rs:  *)
(* complete_transfer_native) of the Solana Wormhole programs.              *)
(*                                                                         *)
(* The ledger state is the set of claim accounts and the token balances.   *)
(* One instruction is one transaction: the handler runs on a working copy  *)
(* of the accounts and the ledger keeps the copy only if the handler       *)
(* returned Ok. Transactions that write the same account are serialised by *)
(* the ledger, so concurrent attempts are the attempts taken in any order. *)
(*                                                                         *)
(* Error names are the code's. The specification's names for them are      *)
(*   AddressMismatch     = ErrorCode::ConstraintSeeds                      *)
(*   WrongSettlementPath = TokenBridgeError::WrappedAsset                  *)
(*   AlreadyClaimed      = the failure of create_account_safe on an        *)
(*                         address that is in use                          *)
(*   AmountOverflow      = the panic of expect()/unwrap() on try_into      *)
(***************************************************************************)
EXTENDS Integers, Sequences, FiniteSets, TLC

VARIABLES
    accounts,          \* claim accounts: address -> [owner, data]
    balances,          \* token accounts: mint -> holder -> amount
    last,              \* the last processed instruction: inputs, result, state before
    settled,           \* per VAA: number of settlements that returned Ok
    tries,             \* per VAA: number of valid, funded settlement attempts processed
    dups,              \* per VAA: how many of those failed with AlreadyClaimed
    debited,           \* per VAA: total moved out of custody by its settlements
    deposits,          \* number of outbound transfers that funded the custody
    acquired           \* the successful claim_vaa calls of other programs: message, prefix, claim

vars == <<accounts, balances, last, settled, tries, dups, debited, deposits, acquired>>

----------------------------------------------------------------------------
(* Bounds of the model *)

\* Width of the token amount type (u64 in the code), scaled down.
WordBits == 8

\* How many valid, funded attempts per message the model submits.
MaxReplays == 2

\* How many outbound transfers (custody deposits) the model performs.
MaxDeposits == 1

----------------------------------------------------------------------------
(* Program constants *)

SOLANA_CHAIN == 1
EMITTER_ADDRESS_LEN == 32
EMITTER_CHAIN_LEN == 2
SEQUENCE_LEN == 8
CLAIM_SPACE == 1
NORMALIZED_DECIMALS == 8

RECURSIVE Pow(_, _)
Pow(b, n) == IF n = 0 THEN 1 ELSE b * Pow(b, n - 1)

U64_MAX == Pow(2, WordBits) - 1

TOKEN_BRIDGE == "token_bridge"
INTEGRATOR == "integrator"
Programs == {TOKEN_BRIDGE, INTEGRATOR}


----------------------------------------------------------------------------
(* Bytes, seeds and program-derived addresses *)

\* u16::to_be_bytes / u64::to_be_bytes: n in `len` bytes, most significant first.
RECURSIVE to_be_bytes(_, _)
to_be_bytes(n, len) ==
    IF len = 0 THEN <<>> ELSE Append(to_be_bytes(n \div 256, len - 1), n % 256)

RECURSIVE Concat(_)
Concat(seeds) == IF seeds = <<>> THEN <<>> ELSE Head(seeds) \o Concat(Tail(seeds))

\* Pubkey::find_program_address hashes the seeds one after the other (no
\* length prefixes) together with the program id. The address is modelled as
\* the hashed input itself (the hash is taken to be collision free); the bump
\* is a fixed function of the same input, at most 255.
find_program_address(seeds, program_id) ==
    LET bytes == Concat(seeds)
        n == Len(bytes)
    IN  [addr |-> [seeds |-> bytes, program |-> program_id],
         bump |-> 255 - ((n + (IF n = 0 THEN 0 ELSE bytes[n])) % 4)]

None == [some |-> FALSE, seed |-> <<>>]
Some(seed) == [some |-> TRUE, seed |-> seed]

----------------------------------------------------------------------------
(* The posted, verified VAAs (trusted input) and the local token accounts *)

Addr32(b) == [i \in 1..EMITTER_ADDRESS_LEN |-> b]

Mints == {"MintA", "MintB"}
Holders == {"alice", "bob"}
CUSTODY == "custody"

\* token::Mint.decimals of the two local mints.
decimals_of(mint) == IF mint = "MintA" THEN 9 ELSE 6

\* Registered Emitter accounts: chain id -> the foreign Token Bridge address.
registered_emitter(chain) == IF chain = 2 THEN Addr32(1) ELSE Addr32(0)

Transfer(ea, seq, tc, ta, amount, fee, recipient) ==
    [emitter_address |-> ea, emitter_chain |-> 2, sequence |-> seq,
     token_chain |-> tc, token_address |-> ta, amount |-> amount, relayer_fee |-> fee,
     recipient |-> recipient]

VaaIds == {"v1", "v2", "v3", "v4", "v5", "v6", "v7", "v8", "v9", "v10"}

\* VaaAccount::load: the message of each posted VAA account. The triple
\* (emitter_address, emitter_chain, sequence) is unique per message.
vaa_of(id) ==
    CASE id = "v1" -> Transfer(Addr32(1), 1, SOLANA_CHAIN, "MintA", 5, 1, "alice")
      [] id = "v2" -> Transfer(Addr32(1), 2, SOLANA_CHAIN, "MintA", 3, 0, "alice")
      [] id = "v3" -> Transfer(Addr32(1), 3, 2, "MintA", 2, 0, "alice")
      [] id = "v4" -> Transfer(Addr32(2), 1, SOLANA_CHAIN, "MintA", 2, 0, "alice")
      [] id = "v5" -> Transfer(Addr32(1), 4, SOLANA_CHAIN, "MintA", (U64_MAX \div 10) + 1, 0, "alice")
      [] id = "v6" -> Transfer(Addr32(1), 5, SOLANA_CHAIN, "MintA", 2, 3, "alice")
      [] id = "v7" -> Transfer(Addr32(1), 6, SOLANA_CHAIN, "MintB", 1200, 100, "bob")
      [] id = "v8" -> Transfer(Addr32(1), 7, SOLANA_CHAIN, "MintA", 20, 2, "alice")
      [] id = "v9" -> Transfer(Addr32(2), 2, 2, "MintA", 2, 0, "alice")
      [] id = "v10" -> Transfer(Addr32(1), 8, SOLANA_CHAIN, "MintA", 5, (U64_MAX \div 10) + 1, "alice")

\* vaa.emitter_info()
emitter_info(vaa) ==
    [address |-> vaa.emitter_address, chain |-> vaa.emitter_chain, sequence |-> vaa.sequence]

----------------------------------------------------------------------------
(* Collaborators: system program and token program *)

Ok == "Ok"
Result(res, step, L) == [res |-> res, step |-> step, L |-> L]

\* A cross-program invocation and its outcome are recorded in the
\* transaction's log L.cpi.
invoked(L, call) == [L EXCEPT !.cpi = Append(@, call)]
CreateAccount(to, ok) == [call |-> "create_account", to |-> to, amount |-> 0, ok |-> ok]
TokenTransfer(to, amount, ok) == [call |-> "transfer", to |-> to, amount |-> amount, ok |-> ok]

\* Mutant: an address already in use is taken over instead of refused.
create_account_reusing(L, to, space, owner) ==
    [res |-> Ok,
     L |-> [invoked(L, CreateAccount(to, TRUE)) EXCEPT !.accounts =
               (to :> [owner |-> owner, data |-> [i \in 1..space |-> 0]]) @@ L.accounts]]

\* create_account_safe(CreateAccount {from: payer, to}, space, owner): the
\* system program creates `to` with `space` zeroed bytes, owned by `owner`.
\* It fails when the address is already in use.
create_account_safe(L, to, space, owner) ==
    IF to \in DOMAIN L.accounts
    THEN [res |-> "AlreadyClaimed", L |-> invoked(L, CreateAccount(to, FALSE))]
    ELSE [res |-> Ok,
          L |-> [invoked(L, CreateAccount(to, TRUE)) EXCEPT !.accounts =
                    (to :> [owner |-> owner, data |-> [i \in 1..space |-> 0]]) @@ L.accounts]]

\* Mutant: the token program moves the amount without looking at the balance.
transfer_unchecked(L, mint, from, to, amount) ==
    [res |-> Ok,
     L |-> [invoked(L, TokenTransfer(to, amount, TRUE))
               EXCEPT !.balances[mint][from] = @ - amount,
                      !.balances[mint][to] = @ + amount]]

\* token::transfer(Transfer {from, to, authority}, amount) of the token
\* program: fails when `from` holds less than `amount`.
transfer(L, mint, from, to, amount) ==
    IF L.balances[mint][from] < amount
    THEN [res |-> "TransferFailed", L |-> invoked(L, TokenTransfer(to, amount, FALSE))]
    ELSE [res |-> Ok,
          L |-> [invoked(L, TokenTransfer(to, amount, TRUE))
                    EXCEPT !.balances[mint][from] = @ - amount,
                           !.balances[mint][to] = @ + amount]]

----------------------------------------------------------------------------
(* Replay guard: core-bridge utils/vaa/mod.rs *)

\* Mutant: the bump is not written; the byte of the new account stays zero.
write_bump_skipped(created, claim, bump) == created

\* claim.data.borrow_mut()[0] = bump, once create_account_safe(..)? returned.
write_bump(created, claim, bump) ==
    IF created.res # Ok
    THEN created
    ELSE [res |-> Ok, L |-> [created.L EXCEPT !.accounts[claim].data[1] = bump]]

\* require_keys_eq!(claim.key(), expected_addr, ConstraintSeeds), then the
\* creation of the account signed with the seeds and the bump.
create_claim(L, claim, program_id, pda) ==
    IF claim # pda.addr
    THEN [res |-> "ConstraintSeeds", L |-> L]
    ELSE write_bump(create_account_safe(L, claim, CLAIM_SPACE, program_id), claim, pda.bump)

\* Mutant: the claim account key is not compared with the derived address.
handle_claim_vaa_prefixed_unchecked(L, claim, program_id, prefix_seed, emitter_address_seed, emitter_chain_seed, sequence_seed) ==
    write_bump(create_account_safe(L, claim, CLAIM_SPACE, program_id), claim,
        find_program_address(
            <<prefix_seed, emitter_address_seed, emitter_chain_seed, sequence_seed>>,
            program_id).bump)

handle_claim_vaa_prefixed(L, claim, program_id, prefix_seed, emitter_address_seed, emitter_chain_seed, sequence_seed) ==
    create_claim(L, claim, program_id,
        find_program_address(
            <<prefix_seed, emitter_address_seed, emitter_chain_seed, sequence_seed>>,
            program_id))

\* Mutant: the result of create_account_safe is dropped instead of returned
\* with `?`, so an existing claim does not stop the caller.
handle_claim_vaa_ignoring_create(L, claim, program_id, emitter_address_seed, emitter_chain_seed, sequence_seed) ==
    IF claim # find_program_address(
                   <<emitter_address_seed, emitter_chain_seed, sequence_seed>>,
                   program_id).addr
    THEN [res |-> "ConstraintSeeds", L |-> L]
    ELSE IF claim \in DOMAIN L.accounts
         THEN [res |-> Ok, L |-> invoked(L, CreateAccount(claim, FALSE))]
         ELSE create_claim(L, claim, program_id,
                  find_program_address(
                      <<emitter_address_seed, emitter_chain_seed, sequence_seed>>,
                      program_id))

handle_claim_vaa(L, claim, program_id, emitter_address_seed, emitter_chain_seed, sequence_seed) ==
    create_claim(L, claim, program_id,
        find_program_address(
            <<emitter_address_seed, emitter_chain_seed, sequence_seed>>,
            program_id))

claim_vaa(L, claim, program_id, vaa, claim_seed_prefix) ==
    LET emitter == emitter_info(vaa)
    IN  IF claim_seed_prefix.some
        THEN handle_claim_vaa_prefixed(L, claim, program_id, claim_seed_prefix.seed,
                 emitter.address,
                 to_be_bytes(emitter.chain, EMITTER_CHAIN_LEN),
                 to_be_bytes(emitter.sequence, SEQUENCE_LEN))
        ELSE handle_claim_vaa(L, claim, program_id,
                 emitter.address,
                 to_be_bytes(emitter.chain, EMITTER_CHAIN_LEN),
                 to_be_bytes(emitter.sequence, SEQUENCE_LEN))

----------------------------------------------------------------------------
(* Native settlement: token-bridge complete_transfer/native.rs *)

\* EncodedAmount::denorm: a value normalized to 8 decimals, in the mint's
\* own decimals (a 256-bit value, not yet narrowed to u64).
denorm(v, decimals) ==
    IF decimals > NORMALIZED_DECIMALS
    THEN v * Pow(10, decimals - NORMALIZED_DECIMALS)
    ELSE v \div Pow(10, NORMALIZED_DECIMALS - decimals)

\* super::validate_token_transfer_vaa(vaa, registered_emitter, recipient_token):
\* the emitter of the VAA must be the registered emitter of its chain; yields
\* the token chain and token address of the transfer.
validate_token_transfer_vaa(vaa) ==
    IF registered_emitter(vaa.emitter_chain) # vaa.emitter_address
    THEN [res |-> "UntrustedEmitter"]
    ELSE [res |-> Ok, token_chain |-> vaa.token_chain, token_address |-> vaa.token_address]

\* Mutant: the token chain of the transfer is not required to be Solana.
constraints_any_chain(ix) ==
    LET v == validate_token_transfer_vaa(vaa_of(ix.vaa))
    IN  IF v.res # Ok THEN v.res
        ELSE IF ix.mint # v.token_address THEN "InvalidMint"
        ELSE Ok

\* Mutant: the mint account is not compared with the encoded token address.
constraints_any_mint(ix) ==
    LET v == validate_token_transfer_vaa(vaa_of(ix.vaa))
    IN  IF v.res # Ok THEN v.res
        ELSE IF v.token_chain # SOLANA_CHAIN THEN "WrappedAsset"
        ELSE Ok

\* CompleteTransferNative::constraints, run by #[access_control] before the
\* body of the handler.
constraints(ix) ==
    LET v == validate_token_transfer_vaa(vaa_of(ix.vaa))
    IN  IF v.res # Ok THEN v.res
        ELSE IF v.token_chain # SOLANA_CHAIN THEN "WrappedAsset"
        ELSE IF ix.mint # v.token_address THEN "InvalidMint"
        ELSE Ok

\* Mutant: the result of the final token::transfer is dropped and the
\* handler returns Ok(()).
recipient_transfer_swallowing(L, ix, transfer_amount) ==
    Result(Ok, "recipient_transfer",
           transfer(L, ix.mint, CUSTODY, ix.recipient_token, transfer_amount).L)

\* Mutant: `from` and `to` of the final transfer are exchanged.
recipient_transfer_reversed(L, ix, transfer_amount) ==
    LET final == transfer(L, ix.mint, ix.recipient_token, CUSTODY, transfer_amount)
    IN  Result(final.res, "recipient_transfer", final.L)

\* The final token::transfer, to the recipient; its result is the handler's.
recipient_transfer(L, ix, transfer_amount) ==
    LET final == transfer(L, ix.mint, CUSTODY, ix.recipient_token, transfer_amount)
    IN  Result(final.res, "recipient_transfer", final.L)

\* After the token::transfer(..)? to the relayer.
after_relayer_transfer(paid, ix, transfer_amount) ==
    IF paid.res # Ok
    THEN Result(paid.res, "relayer_transfer", paid.L)
    ELSE recipient_transfer(paid.L, ix, transfer_amount)

\* Mutant: the subtraction saturates at zero (saturating_sub).
saturating_sub(a, b) == {[panic |-> FALSE, value |-> IF b > a THEN 0 ELSE a - b]}

\* transfer_amount -= relayer_payout on u64. When the payout exceeds the
\* amount the outcome depends on the build profile: a build with overflow
\* checks panics, one without wraps modulo 2^64.
checked_or_wrapping_sub(a, b) ==
    IF b > a
    THEN {[panic |-> TRUE, value |-> 0], [panic |-> FALSE, value |-> (a - b) % (U64_MAX + 1)]}
    ELSE {[panic |-> FALSE, value |-> a - b]}

\* Mutant: the relayer is paid by a transfer of its own even when its token
\* account is the recipient's.
pay_out_always_split(L, ix, amount, relayer_payout) ==
    IF relayer_payout > 0
    THEN { IF transfer_amount.panic
           THEN Result("Panic", "fee_split", L)
           ELSE after_relayer_transfer(
                    transfer(L, ix.mint, CUSTODY, ix.payer, relayer_payout),
                    ix, transfer_amount.value) :
           transfer_amount \in checked_or_wrapping_sub(amount, relayer_payout) }
    ELSE {recipient_transfer(L, ix, amount)}

\* The fee split and the transfers, once the amounts are known: the set of
\* outcomes the builds of the program can produce.
pay_out(L, ix, amount, relayer_payout) ==
    IF relayer_payout > 0 /\ ix.recipient_token # ix.payer
    THEN { IF transfer_amount.panic
           THEN Result("Panic", "fee_split", L)
           ELSE after_relayer_transfer(
                    transfer(L, ix.mint, CUSTODY, ix.payer, relayer_payout),
                    ix, transfer_amount.value) :
           transfer_amount \in checked_or_wrapping_sub(amount, relayer_payout) }
    ELSE {recipient_transfer(L, ix, amount)}

\* Mutant: an amount that does not fit u64 ends the handler with Ok(()) and
\* no transfer, instead of a panic.
after_claim_silent_overflow(claimed, ix, amount, relayer_payout) ==
    IF claimed.res # Ok
    THEN {Result(claimed.res, "claim_vaa", claimed.L)}
    ELSE IF amount > U64_MAX \/ relayer_payout > U64_MAX
         THEN {Result(Ok, "denorm", claimed.L)}
         ELSE pay_out(claimed.L, ix, amount, relayer_payout)

\* Mutant: the amounts are narrowed with `as u64`, which keeps the low 64
\* bits, instead of try_into().
after_claim_truncating(claimed, ix, amount, relayer_payout) ==
    IF claimed.res # Ok
    THEN {Result(claimed.res, "claim_vaa", claimed.L)}
    ELSE pay_out(claimed.L, ix, amount % (U64_MAX + 1), relayer_payout % (U64_MAX + 1))

\* After core_bridge::claim_vaa(..)?: denormalize, narrow to u64, pay out.
after_claim(claimed, ix, amount, relayer_payout) ==
    IF claimed.res # Ok
    THEN {Result(claimed.res, "claim_vaa", claimed.L)}
    ELSE \* try_into::<u64>().expect(..) / .unwrap()
         IF amount > U64_MAX \/ relayer_payout > U64_MAX
         THEN {Result("Panic", "denorm", claimed.L)}
         ELSE pay_out(claimed.L, ix, amount, relayer_payout)

\* Mutant: the claim is created first and the access control runs after it.
complete_transfer_native_claim_first(L, ix) ==
    LET claimed == claim_vaa(L, ix.claim, TOKEN_BRIDGE, vaa_of(ix.vaa), None)
    IN  IF claimed.res # Ok
        THEN {Result(claimed.res, "claim_vaa", claimed.L)}
        ELSE IF constraints(ix) # Ok
             THEN {Result(constraints(ix), "constraints", claimed.L)}
             ELSE after_claim(claimed, ix,
                      denorm(vaa_of(ix.vaa).amount, decimals_of(ix.mint)),
                      denorm(vaa_of(ix.vaa).relayer_fee, decimals_of(ix.mint)))

\* Mutant: the relayer fee is narrowed to u64 as encoded, without denorm.
complete_transfer_native_raw_fee(L, ix) ==
    IF constraints(ix) # Ok
    THEN {Result(constraints(ix), "constraints", L)}
    ELSE after_claim(claim_vaa(L, ix.claim, TOKEN_BRIDGE, vaa_of(ix.vaa), None), ix,
                     denorm(vaa_of(ix.vaa).amount, decimals_of(ix.mint)),
                     vaa_of(ix.vaa).relayer_fee)

\* Mutant: the handler does not call claim_vaa.
complete_transfer_native_unguarded(L, ix) ==
    IF constraints(ix) # Ok
    THEN {Result(constraints(ix), "constraints", L)}
    ELSE after_claim([res |-> Ok, L |-> L], ix,
                     denorm(vaa_of(ix.vaa).amount, decimals_of(ix.mint)),
                     denorm(vaa_of(ix.vaa).relayer_fee, decimals_of(ix.mint)))

\* complete_transfer_native with its access control. Each outcome is the
\* result, the step that produced it and the accounts as the handler left them.
complete_transfer_native(L, ix) ==
    IF constraints(ix) # Ok
    THEN {Result(constraints(ix), "constraints", L)}
    ELSE after_claim(claim_vaa(L, ix.claim, TOKEN_BRIDGE, vaa_of(ix.vaa), None), ix,
                     denorm(vaa_of(ix.vaa).amount, decimals_of(ix.mint)),
                     denorm(vaa_of(ix.vaa).relayer_fee, decimals_of(ix.mint)))

----------------------------------------------------------------------------
(* The ledger: state, transactions and the instructions submitted to it *)

\* The accounts as a transaction finds them; its invocation log starts empty.
Ledger == [accounts |-> accounts, balances |-> balances, cpi |-> <<>>]

\* One transaction is all or nothing: the accounts a failed instruction
\* wrote are discarded.
commit(L, result) == IF result.res = Ok THEN result.L ELSE L

\* The claim address of a message under a program and an optional prefix.
claim_address(program_id, id, prefix) ==
    LET vaa == vaa_of(id)
        key == <<vaa.emitter_address,
                 to_be_bytes(vaa.emitter_chain, EMITTER_CHAIN_LEN),
                 to_be_bytes(vaa.sequence, SEQUENCE_LEN)>>
    IN  find_program_address(IF prefix.some THEN <<prefix.seed>> \o key ELSE key,
                             program_id).addr

\* Another message than `id` (its claim address is a wrong claim account for `id`).
other_vaa(id) == IF id = "v1" THEN "v2" ELSE "v1"

\* The token bridge's claim address of each message (no prefix).
TokenBridgeClaims == [id \in VaaIds |-> claim_address(TOKEN_BRIDGE, id, None)]

\* The accounts of an instruction: the claim account is the derived one or
\* that of another message; recipient_token is the token account the message
\* names as its recipient; payer_token is the payer's token account.
resolve(id, right, mint, payer) ==
    [vaa |-> id,
     claim |-> IF right THEN TokenBridgeClaims[id] ELSE TokenBridgeClaims[other_vaa(id)],
     mint |-> mint,
     recipient_token |-> vaa_of(id).recipient,
     payer |-> payer]

\* The instructions a caller can submit: any posted VAA, the right or a wrong
\* claim account, either mint, any payer.
Instructions ==
    { resolve(id, right, m, p) :
        id \in VaaIds, right \in BOOLEAN, m \in Mints, p \in Holders }

native_amount(ix) == denorm(vaa_of(ix.vaa).amount, decimals_of(ix.mint))
native_fee(ix) == denorm(vaa_of(ix.vaa).relayer_fee, decimals_of(ix.mint))

\* A settlement attempt that nothing but the replay guard can stop: the
\* message is authorized, the claim account is the derived one, the amounts
\* fit and the custody holds the amount.
WellFormed(L, ix) ==
    /\ constraints(ix) = Ok
    /\ ix.claim = TokenBridgeClaims[ix.vaa]
    /\ native_amount(ix) <= U64_MAX
    /\ native_fee(ix) <= native_amount(ix)
    /\ L.balances[ix.mint][CUSTODY] >= native_amount(ix)

InitialBalances ==
    [m \in Mints |->
        IF m = "MintA"
        THEN (CUSTODY :> 100) @@ ("alice" :> 100) @@ ("bob" :> 0)
        ELSE (CUSTODY :> 20) @@ ("alice" :> 0) @@ ("bob" :> 0)]

NoInstruction == [op |-> "none"]

Init ==
    /\ accounts = <<>>
    /\ balances = InitialBalances
    /\ last = NoInstruction
    /\ settled = [id \in VaaIds |-> 0]
    /\ tries = [id \in VaaIds |-> 0]
    /\ dups = [id \in VaaIds |-> 0]
    /\ debited = [id \in VaaIds |-> 0]
    /\ deposits = 0
    /\ acquired = {}

\* The bookkeeping of a processed complete_transfer_native.
Settle(ix, L, wf, result, post) ==
    /\ wf => tries[ix.vaa] < MaxReplays
    /\ accounts' = post.accounts
    /\ balances' = post.balances
    /\ last' = [op |-> "complete_transfer_native", ix |-> ix, res |-> result.res,
                step |-> result.step, cpi |-> result.L.cpi, wf |-> wf, pre |-> L]
    /\ settled' = [settled EXCEPT ![ix.vaa] = @ + (IF result.res = Ok THEN 1 ELSE 0)]
    /\ tries' = [tries EXCEPT ![ix.vaa] = @ + (IF wf THEN 1 ELSE 0)]
    /\ dups' = [dups EXCEPT ![ix.vaa] =
                    @ + (IF wf /\ result.res = "AlreadyClaimed" THEN 1 ELSE 0)]
    /\ debited' = [debited EXCEPT ![ix.vaa] =
                    @ + L.balances[ix.mint][CUSTODY] - post.balances[ix.mint][CUSTODY]]
    /\ UNCHANGED <<deposits, acquired>>

\* A caller submits complete_transfer_native; the ledger processes it.
CompleteTransferNative ==
    \E ix \in Instructions, L \in {Ledger} :
    \E result \in complete_transfer_native(L, ix) :
        Settle(ix, L, WellFormed(L, ix), result, commit(L, result))

Prefixes == {None, Some(<<>>), Some(<<7>>)}
IntegratorVaas == {"v1", "v2", "v4"}

\* Another program uses the replay guard for an instruction of its own, with
\* or without a claim seed prefix.
IntegratorClaimVaa ==
    \E id \in IntegratorVaas, prefix \in Prefixes :
    \E claim \in {claim_address(INTEGRATOR, id, q) : q \in Prefixes}
                 \cup {claim_address(TOKEN_BRIDGE, id, None)} :
    \E L \in {Ledger} :
    \E got \in {claim_vaa(L, claim, INTEGRATOR, vaa_of(id), prefix)} :
    \E post \in {commit(L, got)} :
        /\ accounts' = post.accounts
        /\ balances' = post.balances
        /\ last' = [op |-> "claim_vaa", ix |-> [vaa |-> id, claim |-> claim, prefix |-> prefix],
                    res |-> got.res, step |-> "claim_vaa", cpi |-> got.L.cpi,
                    wf |-> FALSE, pre |-> L]
        /\ acquired' = IF got.res = Ok
                        THEN acquired \cup {[vaa |-> id, prefix |-> prefix, claim |-> claim]}
                        ELSE acquired
        /\ UNCHANGED <<settled, tries, dups, debited, deposits>>

OutboundAmounts == {100}

\* The outbound transfer path (not part of this core) funds the custody.
Deposit ==
    \E m \in Mints, h \in Holders, amount \in OutboundAmounts :
        /\ deposits < MaxDeposits
        /\ balances[m][h] >= amount
        /\ balances' = [balances EXCEPT ![m][h] = @ - amount, ![m][CUSTODY] = @ + amount]
        /\ deposits' = deposits + 1
        /\ last' = [op |-> "deposit", ix |-> [mint |-> m, holder |-> h, amount |-> amount],
                    res |-> Ok, step |-> "deposit", cpi |-> <<>>, wf |-> FALSE, pre |-> Ledger]
        /\ UNCHANGED <<accounts, settled, tries, dups, debited, acquired>>

Next == CompleteTransferNative \/ Deposit

\* Settlement, with the custody funded by outbound transfers.
Spec == Init /\ [][Next]_vars

NextGuard == IntegratorClaimVaa

\* The replay guard alone, used by another program with both seed variants.
SpecGuard == Init /\ [][NextGuard]_vars

----------------------------------------------------------------------------
(* Properties *)

IsSettlement == last.op = "complete_transfer_native"
IsAcquire == last.op = "claim_vaa"

\* The token bridge's claim address of a message.
TokenBridgeClaim(id) == TokenBridgeClaims[id]

\* The native amount and fee of a message, in the decimals of its own mint.
MessageAmount(id) == denorm(vaa_of(id).amount, decimals_of(vaa_of(id).token_address))
MessageFee(id) == denorm(vaa_of(id).relayer_fee, decimals_of(vaa_of(id).token_address))

\* The instruction passes the access control and names the derived claim
\* account, so it gets as far as the creation of the claim.
ReachesGuard(ix) ==
    constraints(ix) = Ok /\ ix.claim = TokenBridgeClaim(ix.vaa)

\* C1 (at-most-once). For every message (emitter_address, emitter_chain,
\* sequence; the token bridge uses no namespace prefix): no more than one
\* settlement ever succeeds; of the N = tries[id] attempts that only the replay
\* guard can stop, in whatever order the ledger takes them, exactly one
\* succeeds and N - 1 fail with AlreadyClaimed; and an attempt that reaches
\* the guard of a message already claimed fails with AlreadyClaimed.
C1_AtMostOnce ==
    /\ \A id \in VaaIds :
          /\ settled[id] <= 1
          /\ tries[id] >= 1 => (settled[id] = 1 /\ dups[id] = tries[id] - 1)
    /\ (IsSettlement /\ ReachesGuard(last.ix) /\ last.ix.claim \in DOMAIN last.pre.accounts)
          => last.res = "AlreadyClaimed"

\* C1 witness: a message attempted at least twice, settled once, the replay
\* just refused with AlreadyClaimed.
C1_Witness ==
    /\ IsSettlement
    /\ last.res = "AlreadyClaimed"
    /\ tries[last.ix.vaa] >= 2
    /\ settled[last.ix.vaa] = 1
    /\ dups[last.ix.vaa] = tries[last.ix.vaa] - 1

\* C2 (escrow debited at most once per message). The total moved out of the
\* custody by the settlements of one message never exceeds the native amount
\* of that message, whatever the callers and the order of their attempts.
C2_DebitedAtMostOnce ==
    \A id \in VaaIds : debited[id] >= 0 /\ debited[id] <= MessageAmount(id)

\* C2 witness: a message paid out in full, and attempted again by a caller.
C2_Witness ==
    \E id \in VaaIds :
        /\ debited[id] = MessageAmount(id)
        /\ debited[id] > 0
        /\ tries[id] >= 2

\* The failed and the issued token transfers of the last transaction.
FailedTransfer == \E i \in DOMAIN last.cpi : last.cpi[i].call = "transfer" /\ ~last.cpi[i].ok
Transfers == SelectSeq(last.cpi, LAMBDA c : c.call = "transfer")

RECURSIVE SumAmounts(_)
SumAmounts(calls) == IF calls = <<>> THEN 0 ELSE Head(calls).amount + SumAmounts(Tail(calls))

\* A step after the creation of the claim failed: the handler stopped at the
\* narrowing of the amounts, at the fee subtraction or at a token transfer.
StepAfterClaimFailed ==
    \/ last.step \in {"denorm", "fee_split", "relayer_transfer"}
    \/ FailedTransfer

\* C3 (atomicity of the claim). When a step of a settlement attempt after the
\* creation of the claim fails (amount overflow, a failing token transfer),
\* the claim address does not exist after the attempt; and in no state is
\* there a token bridge claim for a message whose settlement did not
\* complete, that is, succeed and pay the message's amount out of the custody.
C3_ClaimAtomic ==
    /\ (IsSettlement /\ StepAfterClaimFailed) => last.ix.claim \notin DOMAIN accounts
    /\ \A id \in VaaIds :
          TokenBridgeClaim(id) \in DOMAIN accounts
              => (settled[id] = 1 /\ debited[id] = MessageAmount(id))

\* C3 witness: the claim was created in the transaction, the narrowing of the
\* amount to u64 panicked, and the claim is not there.
C3_Witness ==
    /\ IsSettlement
    /\ last.step = "denorm"
    /\ last.res = "Panic"
    /\ Len(last.cpi) = 1 /\ last.cpi[1].call = "create_account" /\ last.cpi[1].ok
    /\ last.ix.claim \notin DOMAIN accounts

\* C4 (indivisible transfers). After a failed settlement attempt the custody,
\* relayer and recipient balances and the set of claims are what they were
\* before the attempt; in particular when a token transfer of the attempt
\* fails, the transfer issued before it and the claim creation are undone.
C4_Indivisible ==
    IsSettlement =>
        /\ last.res # Ok => (accounts = last.pre.accounts /\ balances = last.pre.balances)
        /\ FailedTransfer => (accounts = last.pre.accounts /\ balances = last.pre.balances)

\* C4 witness: the claim was created, the relayer was paid, the transfer to
\* the recipient failed, and nothing of it is left.
C4_Witness ==
    /\ IsSettlement
    /\ last.res = "TransferFailed"
    /\ Len(last.cpi) = 3
    /\ last.cpi[1].call = "create_account" /\ last.cpi[1].ok
    /\ last.cpi[2].call = "transfer" /\ last.cpi[2].ok /\ last.cpi[2].to = last.ix.payer
    /\ last.cpi[3].call = "transfer" /\ ~last.cpi[3].ok
    /\ last.cpi[2].amount > 0
    /\ accounts = last.pre.accounts /\ balances = last.pre.balances

\* A message that the access control accepts with its own mint and whose
\* amounts are in range.
Settleable(id) ==
    /\ validate_token_transfer_vaa(vaa_of(id)).res = Ok
    /\ vaa_of(id).token_chain = SOLANA_CHAIN
    /\ MessageAmount(id) <= U64_MAX
    /\ MessageFee(id) <= MessageAmount(id)

\* The attempt for a message with the correct claim address and mint.
Corrected(id, payer) ==
    [vaa |-> id, claim |-> TokenBridgeClaim(id), mint |-> vaa_of(id).token_address,
     recipient_token |-> vaa_of(id).recipient, payer |-> payer]

\* C5 (a failure does not consume the message). A failed attempt leaves the
\* claim of its message as it was. As long as no settlement of a settleable
\* message has succeeded, whatever attempts have failed before, the attempt
\* with the correct claim address and mint succeeds when the custody holds
\* the amount (and fails only with TransferFailed when it does not). Once a
\* settlement has succeeded every attempt for the message fails.
C5_FailureDoesNotConsume ==
    /\ (IsSettlement /\ last.res # Ok)
          => (TokenBridgeClaim(last.ix.vaa) \in DOMAIN accounts
                 <=> TokenBridgeClaim(last.ix.vaa) \in DOMAIN last.pre.accounts)
    /\ \A id \in VaaIds, payer \in Holders :
          (settled[id] = 0 /\ Settleable(id))
              => \A r \in complete_transfer_native(Ledger, Corrected(id, payer)) :
                    r.res = IF balances[vaa_of(id).token_address][CUSTODY] >= MessageAmount(id)
                            THEN Ok ELSE "TransferFailed"
    /\ \A ix \in Instructions :
          settled[ix.vaa] >= 1
              => \A r \in complete_transfer_native(Ledger, ix) : r.res # Ok

\* C5 witness: an attempt just failed for another reason than AlreadyClaimed,
\* its message is not settled, and the corrected attempt would succeed now.
C5_Witness ==
    /\ IsSettlement
    /\ last.res \notin {Ok, "AlreadyClaimed"}
    /\ settled[last.ix.vaa] = 0
    /\ Settleable(last.ix.vaa)
    /\ \A r \in complete_transfer_native(Ledger, Corrected(last.ix.vaa, last.ix.payer)) :
          r.res = Ok

\* The claim address an acquire derives for its message, program and prefix.
DerivedClaim ==
    IF IsSettlement THEN TokenBridgeClaim(last.ix.vaa)
    ELSE claim_address(INTEGRATOR, last.ix.vaa, last.ix.prefix)

\* The last instruction got as far as the creation of its claim account.
AcquireReachesCreation ==
    \/ IsSettlement /\ ReachesGuard(last.ix)
    \/ IsAcquire /\ last.ix.claim = DerivedClaim

\* C6 (claim permanence). Every claim account that exists before an
\* instruction exists after it with the same owner and data, whatever the
\* instruction and its outcome; and an acquire for a message (and prefix)
\* whose claim exists fails with AlreadyClaimed.
C6_ClaimPermanent ==
    last.op # "none" =>
        /\ \A a \in DOMAIN last.pre.accounts :
              a \in DOMAIN accounts /\ accounts[a] = last.pre.accounts[a]
        /\ (AcquireReachesCreation /\ DerivedClaim \in DOMAIN last.pre.accounts)
              => last.res = "AlreadyClaimed"

\* C6 witness: with two claims committed, an acquire for one of them was
\* refused and both are unchanged.
C6_Witness ==
    /\ AcquireReachesCreation
    /\ last.res = "AlreadyClaimed"
    /\ Cardinality(DOMAIN last.pre.accounts) >= 2
    /\ accounts = last.pre.accounts

\* C7 (custody never negative). No custody balance is negative in any
\* state; a settlement whose transfers add up to more than the custody holds
\* fails and changes nothing.
C7_EscrowNonNegative ==
    /\ \A m \in Mints : balances[m][CUSTODY] >= 0
    /\ (IsSettlement /\ SumAmounts(Transfers) > last.pre.balances[last.ix.mint][CUSTODY])
          => (last.res # Ok /\ balances = last.pre.balances /\ accounts = last.pre.accounts)

\* C7 witness: a settlement asked for more than the custody held and failed.
C7_Witness ==
    /\ IsSettlement
    /\ SumAmounts(Transfers) > last.pre.balances[last.ix.mint][CUSTODY]
    /\ last.res = "TransferFailed"
    /\ balances[last.ix.mint][CUSTODY] = last.pre.balances[last.ix.mint][CUSTODY]

\* C8 (fee split). A successful settlement debits the custody by exactly
\* native_amount. With native_fee > 0 and a relayer token account other than
\* the recipient's, the relayer account receives native_fee and the recipient
\* account native_amount - native_fee, in two transfers; otherwise there is
\* exactly one transfer, of native_amount, to the recipient account.
C8_FeeSplit ==
    (IsSettlement /\ last.res = Ok) =>
        LET m == last.ix.mint
            r == last.ix.recipient_token
            p == last.ix.payer
            amount == native_amount(last.ix)
            fee == native_fee(last.ix)
            before == last.pre.balances[m]
        IN  /\ balances[m][CUSTODY] = before[CUSTODY] - amount
            /\ IF fee > 0 /\ p # r
               THEN /\ balances[m][p] = before[p] + fee
                    /\ balances[m][r] = before[r] + amount - fee
                    /\ Transfers = <<TokenTransfer(p, fee, TRUE),
                                     TokenTransfer(r, amount - fee, TRUE)>>
               ELSE /\ balances[m][r] = before[r] + amount
                    /\ \A h \in Holders \ {r} : balances[m][h] = before[h]
                    /\ Transfers = <<TokenTransfer(r, amount, TRUE)>>

\* C8 witness: a settlement with a fee paid to a relayer account other than
\* the recipient's.
C8_Witness ==
    /\ IsSettlement
    /\ last.res = Ok
    /\ native_fee(last.ix) > 0
    /\ last.ix.payer # last.ix.recipient_token
    /\ Len(Transfers) = 2

\* C9 (derivation address check). An acquire, with or without a prefix, whose
\* claim account is not the address derived from the optional prefix, the
\* emitter address, the big-endian emitter chain and sequence and the program
\* id fails with ConstraintSeeds (AddressMismatch) before any account
\* creation is attempted, and no claim is created at either address.
C9_AddressCheck ==
    (IsAcquire /\ last.ix.claim # DerivedClaim) =>
        /\ last.res = "ConstraintSeeds"
        /\ last.cpi = <<>>
        /\ accounts = last.pre.accounts

\* C9 witness: a prefixed acquire with the claim account of the unprefixed
\* derivation was refused.
C9_Witness ==
    /\ IsAcquire
    /\ last.ix.prefix.some
    /\ last.ix.claim = claim_address(INTEGRATOR, last.ix.vaa, None)
    /\ last.ix.claim # DerivedClaim
    /\ last.res = "ConstraintSeeds"
    /\ DerivedClaim \notin DOMAIN accounts

\* C10 (asset-path rejection). A settlement attempt for a message whose
\* token chain is not Solana is rejected by the access control, before any
\* invocation: no transfer is issued, the balances are unchanged and no claim
\* of the message exists. The error is WrappedAsset (WrongSettlementPath)
\* whenever validate_token_transfer_vaa, which runs first, accepts the message.
C10_AssetPathRejection ==
    (IsSettlement /\ vaa_of(last.ix.vaa).token_chain # SOLANA_CHAIN) =>
        /\ last.res # Ok
        /\ last.step = "constraints"
        /\ last.cpi = <<>>
        /\ balances = last.pre.balances
        /\ accounts = last.pre.accounts
        /\ TokenBridgeClaim(last.ix.vaa) \notin DOMAIN accounts
        /\ validate_token_transfer_vaa(vaa_of(last.ix.vaa)).res = Ok
              => last.res = "WrappedAsset"

\* C10 witness: a message of a registered emitter about a token of another
\* chain, submitted with its claim account and mint, was rejected.
C10_Witness ==
    /\ IsSettlement
    /\ vaa_of(last.ix.vaa).token_chain # SOLANA_CHAIN
    /\ last.ix.claim = TokenBridgeClaim(last.ix.vaa)
    /\ last.ix.mint = vaa_of(last.ix.vaa).token_address
    /\ last.res = "WrappedAsset"

\* The checks of a settlement up to the narrowing of the amounts, as
\* predicates of the instruction and the accounts it finds.
EmitterRejected(ix) ==
    registered_emitter(vaa_of(ix.vaa).emitter_chain) # vaa_of(ix.vaa).emitter_address
ChainRejected(ix) == vaa_of(ix.vaa).token_chain # SOLANA_CHAIN
MintRejected(ix) == ix.mint # vaa_of(ix.vaa).token_address
AddressRejected(ix) == ix.claim # TokenBridgeClaim(ix.vaa)
ClaimOccupied(L, ix) == ix.claim \in DOMAIN L.accounts
AmountsOverflow(ix) == native_amount(ix) > U64_MAX \/ native_fee(ix) > U64_MAX

\* The error of the first failing step when the replay guard is acquired
\* before the authorization (Ok: none of these steps fails).
GuardFirstError(L, ix) ==
    IF AddressRejected(ix) THEN "ConstraintSeeds"
    ELSE IF ClaimOccupied(L, ix) THEN "AlreadyClaimed"
    ELSE IF EmitterRejected(ix) THEN "UntrustedEmitter"
    ELSE IF ChainRejected(ix) THEN "WrappedAsset"
    ELSE IF MintRejected(ix) THEN "InvalidMint"
    ELSE IF AmountsOverflow(ix) THEN "Panic"
    ELSE Ok

\* The error of the first failing step when the authorization comes before
\* the replay guard.
AuthorizationFirstError(L, ix) ==
    IF EmitterRejected(ix) THEN "UntrustedEmitter"
    ELSE IF ChainRejected(ix) THEN "WrappedAsset"
    ELSE IF MintRejected(ix) THEN "InvalidMint"
    ELSE IF AddressRejected(ix) THEN "ConstraintSeeds"
    ELSE IF ClaimOccupied(L, ix) THEN "AlreadyClaimed"
    ELSE IF AmountsOverflow(ix) THEN "Panic"
    ELSE Ok

\* C11 as stated (step order: replay guard, emitter, asset class and mint,
\* denormalization, fee split, transfers). A failing attempt reports the error
\* of the first failing step in that order; an attempt with the derived claim
\* account on a message already settled reports AlreadyClaimed.
C11_GuardFirst ==
    IsSettlement =>
        /\ GuardFirstError(last.pre, last.ix) # Ok
              => last.res = GuardFirstError(last.pre, last.ix)
        /\ (settled[last.ix.vaa] >= 1 /\ last.res # Ok /\ ~AddressRejected(last.ix))
              => last.res = "AlreadyClaimed"

\* C11 amended (step order of the code: emitter, asset class, mint, replay
\* guard with its address check before the creation, denormalization, fee
\* split, transfer to the relayer, transfer to the recipient). A failing
\* attempt reports the error of the first failing step in this order, and no
\* later step has acted: nothing is invoked before the creation of the claim,
\* the creation is the first invocation and the only one before the amounts
\* are narrowed, and the transfers follow it, the relayer's first.
C11_StepOrder ==
    IsSettlement =>
        LET e == AuthorizationFirstError(last.pre, last.ix)
            created == CreateAccount(last.ix.claim, TRUE)
        IN  /\ e # Ok => last.res = e
            /\ e \in {"UntrustedEmitter", "WrappedAsset", "InvalidMint"}
                  => (last.step = "constraints" /\ last.cpi = <<>>)
            /\ e = "ConstraintSeeds" => (last.step = "claim_vaa" /\ last.cpi = <<>>)
            /\ e = "AlreadyClaimed"
                  => (last.step = "claim_vaa"
                        /\ last.cpi = <<CreateAccount(last.ix.claim, FALSE)>>)
            /\ e = "Panic" => (last.step = "denorm" /\ last.cpi = <<created>>)
            /\ e = Ok =>
                  /\ last.step \in {"fee_split", "relayer_transfer", "recipient_transfer"}
                  /\ last.res \in {Ok, "Panic", "TransferFailed"}
                  /\ Len(last.cpi) >= 1 /\ last.cpi[1] = created
                  /\ \A i \in 2..Len(last.cpi) : last.cpi[i].call = "transfer"
                  /\ last.step = "fee_split" => last.cpi = <<created>>
                  /\ last.step = "relayer_transfer"
                        => (Len(last.cpi) = 2 /\ last.cpi[2].to = last.ix.payer
                              /\ ~last.cpi[2].ok)
                  /\ last.step = "recipient_transfer"
                        => /\ last.cpi[Len(last.cpi)].to = last.ix.recipient_token
                           /\ Len(last.cpi) \in {2, 3}
                           /\ Len(last.cpi) = 3
                                 => (last.cpi[2].to = last.ix.payer /\ last.cpi[2].ok)

\* C11 witness: an attempt with the derived claim account on a message
\* already settled, with another mint than the message's, reported InvalidMint
\* and not AlreadyClaimed.
C11_Witness ==
    /\ IsSettlement
    /\ settled[last.ix.vaa] = 1
    /\ last.ix.claim = TokenBridgeClaim(last.ix.vaa)
    /\ last.ix.claim \in DOMAIN last.pre.accounts
    /\ last.res = "InvalidMint"
    /\ last.step = "constraints"

\* C12 (authorization is necessary for success). The message of every
\* successful settlement has the emitter registered for its emitter chain,
\* the token chain of Solana and the token address of the supplied mint. An
\* attempt whose emitter is not the registered one fails with
\* UntrustedEmitter; an attempt with another mint than the message's fails,
\* with InvalidMint when the emitter and the token chain are accepted; both
\* leave the balances and the claims as they were.
C12_AuthorizationNecessary ==
    IsSettlement =>
        /\ last.res = Ok
              => ~(EmitterRejected(last.ix) \/ ChainRejected(last.ix) \/ MintRejected(last.ix))
        /\ EmitterRejected(last.ix)
              => (last.res = "UntrustedEmitter"
                    /\ balances = last.pre.balances /\ accounts = last.pre.accounts)
        /\ MintRejected(last.ix)
              => /\ last.res # Ok
                 /\ balances = last.pre.balances /\ accounts = last.pre.accounts
                 /\ ~(EmitterRejected(last.ix) \/ ChainRejected(last.ix))
                       => last.res = "InvalidMint"

\* C12 witness: a message of the registered emitter about a Solana token,
\* not settled yet, submitted with its claim account and another mint whose
\* custody is funded, was refused with InvalidMint.
C12_Witness ==
    /\ IsSettlement
    /\ MintRejected(last.ix)
    /\ ~EmitterRejected(last.ix) /\ ~ChainRejected(last.ix)
    /\ ~AddressRejected(last.ix) /\ ~ClaimOccupied(last.pre, last.ix)
    /\ last.pre.balances[last.ix.mint][CUSTODY] >= native_amount(last.ix)
    /\ last.res = "InvalidMint"

\* C13 as stated (the two seed variants do not interfere). For every claim
\* acquired for a message k with a prefix p, the empty one included, the
\* address differs from the unprefixed address of every other message k'
\* (and for a claim acquired without prefix, from the prefixed addresses of
\* every other message); and an acquire that fails with AlreadyClaimed finds
\* a claim made through its own variant, never one made through the other.
C13_NonInterference ==
    /\ \A a \in acquired, id \in IntegratorVaas, p \in Prefixes :
          (id # a.vaa /\ p.some # a.prefix.some)
              => claim_address(INTEGRATOR, id, p) # a.claim
    /\ (IsAcquire /\ last.res = "AlreadyClaimed")
          => \A a \in acquired :
                a.claim = last.ix.claim => a.prefix.some = last.ix.prefix.some

\* A value normalized to 8 decimals in a precision of D decimals.
InDecimals(v, D) == IF D > 8 THEN v * Pow(10, D - 8) ELSE v \div Pow(10, 8 - D)

\* C14 (denormalization). With D the decimals of the supplied mint, the
\* amounts a settlement uses are amount and relayer_fee of the message, each
\* scaled on its own: v * 10^(D-8) when D > 8, floor(v / 10^(8-D)) when
\* D <= 8. The narrowing to u64 fails exactly when one of the two exceeds the
\* range; otherwise the transfers issued carry these values (the scaled fee
\* to the relayer and the scaled amount less the scaled fee to the recipient,
\* or the scaled amount to the recipient). D = 6 takes 1_000_000 to 10_000
\* and D = 9 takes it to 10_000_000.
C14_Denormalization ==
    /\ denorm(1000000, 6) = 10000
    /\ denorm(1000000, 9) = 10000000
    /\ (IsSettlement /\ last.step \notin {"constraints", "claim_vaa"}) =>
          LET D == decimals_of(last.ix.mint)
              a == InDecimals(vaa_of(last.ix.vaa).amount, D)
              f == InDecimals(vaa_of(last.ix.vaa).relayer_fee, D)
          IN  /\ last.step = "denorm" <=> (a > U64_MAX \/ f > U64_MAX)
              /\ (Len(Transfers) >= 1 /\ f > 0 /\ last.ix.payer # last.ix.recipient_token)
                    => /\ Transfers[1].amount = f
                       /\ Len(Transfers) = 2
                             => Transfers[2].amount = (a - f) % (U64_MAX + 1)
              /\ (Len(Transfers) >= 1 /\ ~(f > 0 /\ last.ix.payer # last.ix.recipient_token))
                    => (Len(Transfers) = 1 /\ Transfers[1].amount = a)

\* C14 witness: a settlement for a mint of 6 decimals paid 100 / 10^2 = 1 to
\* the relayer and 1200 / 10^2 - 1 = 11 to the recipient.
C14_Witness ==
    /\ IsSettlement
    /\ last.res = Ok
    /\ decimals_of(last.ix.mint) = 6
    /\ vaa_of(last.ix.vaa).amount = 1200 /\ vaa_of(last.ix.vaa).relayer_fee = 100
    /\ Len(Transfers) = 2
    /\ Transfers[1].amount = 1 /\ Transfers[2].amount = 11

\* C15 (overflow). A settlement attempt whose denormalized amount or relayer
\* fee exceeds the u64 range fails and changes no state: no claim is left,
\* no balance moves and no transfer is issued with a wrapped or truncated
\* value. An attempt that the access control and the replay guard let
\* through fails at the narrowing, with the panic of expect() / unwrap()
\* (AmountOverflow).
C15_Overflow ==
    (IsSettlement /\ AmountsOverflow(last.ix)) =>
        /\ last.res # Ok
        /\ accounts = last.pre.accounts /\ balances = last.pre.balances
        /\ Transfers = <<>>
        /\ AuthorizationFirstError(last.pre, last.ix) = "Panic"
              => (last.res = "Panic" /\ last.step = "denorm"
                    /\ last.cpi = <<CreateAccount(last.ix.claim, TRUE)>>
                    /\ last.ix.claim \notin DOMAIN accounts)

\* C15 witness: a message of the registered emitter whose amount fits u64 as
\* encoded and not once denormalized, submitted with its claim account and
\* mint, a funded custody and no earlier settlement, ended in the panic.
C15_Witness ==
    /\ IsSettlement
    /\ vaa_of(last.ix.vaa).amount <= U64_MAX
    /\ native_amount(last.ix) > U64_MAX
    /\ native_fee(last.ix) <= U64_MAX
    /\ constraints(last.ix) = Ok
    /\ last.pre.balances[last.ix.mint][CUSTODY] >= native_amount(last.ix) % (U64_MAX + 1)
    /\ last.res = "Panic" /\ last.step = "denorm"
    /\ accounts = last.pre.accounts /\ balances = last.pre.balances

\* The program and the seeds of the last acquire, and the derivation for them.
AcquiringProgram == IF IsSettlement THEN TOKEN_BRIDGE ELSE INTEGRATOR
AcquireSeeds ==
    LET emitter == emitter_info(vaa_of(last.ix.vaa))
        key == <<emitter.address,
                 to_be_bytes(emitter.chain, EMITTER_CHAIN_LEN),
                 to_be_bytes(emitter.sequence, SEQUENCE_LEN)>>
    IN  IF IsAcquire /\ last.ix.prefix.some THEN <<last.ix.prefix.seed>> \o key ELSE key
AcquireDerivation == find_program_address(AcquireSeeds, AcquiringProgram)

\* C16 (the claim cell). After a successful acquire, with or without prefix,
\* the claim account is the derived address, holds exactly one byte, is
\* owned by the program the address was derived for, and the byte is the bump
\* of the derivation for the same seeds. Nothing else is written: the new
\* claim is the only account created, the accounts that existed are as they
\* were, and every claim account in every state has this form.
C16_ClaimCell ==
    /\ \A a \in DOMAIN accounts :
          /\ accounts[a].owner = a.program
          /\ Len(accounts[a].data) = 1
          /\ accounts[a].data[1] = find_program_address(<<a.seeds>>, a.program).bump
    /\ ((IsAcquire \/ IsSettlement) /\ last.res = Ok) =>
          /\ last.ix.claim = AcquireDerivation.addr
          /\ last.ix.claim \notin DOMAIN last.pre.accounts
          /\ DOMAIN accounts = DOMAIN last.pre.accounts \cup {last.ix.claim}
          /\ accounts[last.ix.claim] =
                [owner |-> AcquiringProgram, data |-> <<AcquireDerivation.bump>>]
          /\ \A a \in DOMAIN last.pre.accounts : accounts[a] = last.pre.accounts[a]
          /\ IsAcquire => balances = last.pre.balances

\* C16 witness: an acquire with a non-empty prefix succeeded while another
\* claim existed, and its one byte is the bump of the prefixed derivation,
\* which is not the bump of the unprefixed one.
C16_Witness ==
    /\ IsAcquire
    /\ last.res = Ok
    /\ last.ix.prefix.some /\ last.ix.prefix.seed # <<>>
    /\ last.pre.accounts # <<>>
    /\ accounts[last.ix.claim].owner = INTEGRATOR
    /\ accounts[last.ix.claim].data = <<AcquireDerivation.bump>>
    /\ AcquireDerivation.bump
          # find_program_address(<<claim_address(INTEGRATOR, last.ix.vaa, None).seeds>>,
                                 INTEGRATOR).bump

\* The number of successful settlements of the messages in `ids`.
RECURSIVE Successes(_)
Successes(ids) ==
    IF ids = {} THEN 0
    ELSE LET id == CHOOSE i \in ids : TRUE IN settled[id] + Successes(ids \ {id})

\* C17 (claims and successful settlements correspond one to one). In every
\* state the token bridge claim of a message (emitter_address, emitter_chain,
\* sequence) exists if and only if exactly one settlement of that message has
\* succeeded; no message has more than one success; every claim account is
\* the claim of a settled message; and there are as many claim accounts as
\* successful settlements.
C17_ClaimsAreSuccesses ==
    /\ \A id \in VaaIds :
          /\ settled[id] \in {0, 1}
          /\ TokenBridgeClaim(id) \in DOMAIN accounts <=> settled[id] = 1
    /\ DOMAIN accounts = {TokenBridgeClaim(id) : id \in {i \in VaaIds : settled[i] = 1}}
    /\ Cardinality(DOMAIN accounts) = Successes(VaaIds)

\* C17 witness: two messages settled and two claims, after attempts that
\* failed: a replay of a settled message and an attempt for a third message.
C17_Witness ==
    /\ Cardinality(DOMAIN accounts) = 2
    /\ Successes(VaaIds) = 2
    /\ \E id \in VaaIds : settled[id] = 1 /\ dups[id] >= 1
    /\ IsSettlement /\ last.res # Ok /\ settled[last.ix.vaa] = 0

\* The last settlement pays the relayer by a transfer of its own.
FeeIsSplit ==
    native_fee(last.ix) > 0 /\ last.ix.payer # last.ix.recipient_token

\* C18 (no wrapped payout). For every message, one whose native fee
\* exceeds its native amount included: a settlement with fee > 0 and distinct
\* relayer and recipient accounts whose fee exceeds the amount never
\* succeeds, whether the subtraction panics or wraps modulo 2^64, and leaves
\* the state as it was; a successful split pays the recipient exactly
\* native_amount - native_fee; and no successful settlement moves more than
\* native_amount out of the custody in total.
C18_NoWrappedPayout ==
    IsSettlement =>
        LET a == native_amount(last.ix)
            f == native_fee(last.ix)
            m == last.ix.mint
        IN  /\ (FeeIsSplit /\ f > a)
                  => (last.res # Ok
                        /\ balances = last.pre.balances /\ accounts = last.pre.accounts)
            /\ last.res = Ok
                  => /\ SumAmounts(Transfers) <= a
                     /\ last.pre.balances[m][CUSTODY] - balances[m][CUSTODY] <= a
                     /\ FeeIsSplit
                           => (f <= a /\ Transfers[Len(Transfers)].amount = a - f)

\* C18 witness: the fee of the message exceeds its amount, the build wraps
\* the subtraction, the relayer transfer went through and the transfer of
\* the wrapped amount to the recipient failed; nothing of it is left.
C18_Witness ==
    /\ IsSettlement
    /\ FeeIsSplit
    /\ native_fee(last.ix) > native_amount(last.ix)
    /\ Len(Transfers) = 2
    /\ Transfers[1] = TokenTransfer(last.ix.payer, native_fee(last.ix), TRUE)
    /\ Transfers[2] = TokenTransfer(last.ix.recipient_token,
                          (native_amount(last.ix) - native_fee(last.ix)) % (U64_MAX + 1), FALSE)
    /\ last.res = "TransferFailed"
    /\ balances = last.pre.balances /\ accounts = last.pre.accounts

\* The sum of the balances of the token accounts in `holders`.
RECURSIVE Total(_, _)
Total(bal, holders) ==
    IF holders = {} THEN 0
    ELSE LET h == CHOOSE x \in holders : TRUE IN bal[h] + Total(bal, holders \ {h})

\* The custody, recipient and relayer token accounts of the last settlement.
SettlementAccounts == {CUSTODY, last.ix.recipient_token, last.ix.payer}

\* C19 (token conservation). Every settlement attempt, successful or failed,
\* leaves the sum of the custody, recipient and relayer balances of its mint
\* as it was and touches no other token account; a settlement never raises a
\* custody balance; and a custody balance goes down only by a successful
\* settlement.
C19_Conservation ==
    /\ IsSettlement =>
          /\ Total(balances[last.ix.mint], SettlementAccounts)
                = Total(last.pre.balances[last.ix.mint], SettlementAccounts)
          /\ \A m \in Mints :
                /\ balances[m][CUSTODY] <= last.pre.balances[m][CUSTODY]
                /\ \A h \in DOMAIN balances[m] :
                      (m # last.ix.mint \/ h \notin SettlementAccounts)
                          => balances[m][h] = last.pre.balances[m][h]
    /\ last.op # "none" =>
          \A m \in Mints :
              balances[m][CUSTODY] < last.pre.balances[m][CUSTODY]
                  => (IsSettlement /\ last.res = Ok /\ m = last.ix.mint)

\* C19 witness: a settlement paid the relayer and the recipient out of the
\* custody; the custody went down by what the two accounts gained.
C19_Witness ==
    /\ IsSettlement
    /\ last.res = Ok
    /\ last.ix.payer # last.ix.recipient_token
    /\ balances[last.ix.mint][last.ix.payer] > last.pre.balances[last.ix.mint][last.ix.payer]
    /\ balances[last.ix.mint][last.ix.recipient_token]
          > last.pre.balances[last.ix.mint][last.ix.recipient_token]
    /\ balances[last.ix.mint][CUSTODY] < last.pre.balances[last.ix.mint][CUSTODY]
    /\ Total(balances[last.ix.mint], SettlementAccounts)
          = Total(last.pre.balances[last.ix.mint], SettlementAccounts)

====
